---- MODULE Spec2Model ----
(***************************************************************************)
(* Model of qr-recv (src/src/main.rs): a receiver that rebuilds a file     *)
(* from a directory of QR-code images.  main() runs three scanning phases  *)
(* over one shared cursor (get_metadata, get_data, get_md5, with one       *)
(* tick_backward between the last two) and then reassembles.               *)
(*                                                                         *)
(* Bytes are naturals 0..255, byte strings are sequences.  The two         *)
(* external hash primitives (Blake2bVar, md5) are replaced by small        *)
(* arithmetic hashes with the same interface; the JSON text of the         *)
(* metadata is replaced by a five byte record "{" count id_type hash_len   *)
(* "}" and serde_json::from_str by a parser of that record.  A Rust panic  *)
(* (unwrap on None/Err, slice out of range, explicit panic!) ends the run  *)
(* with outcome "panic".                                                   *)
(***************************************************************************)
EXTENDS Integers, Sequences, FiniteSets, TLC

VARIABLES
    frames,         \* the sorted directory listing, one entry per image file
    index,          \* ImageSequenceIterator.index (0-based)
    metadata,       \* QrSendDecoder.metadata (None or a record)
    md_str,         \* the local md_str of get_metadata
    data_segments,  \* QrSendDecoder.data_segments : id -> QrSendData
    total_md5,      \* QrSendDecoder.total_md5
    pc,             \* position of main: which phase runs next
    outcome,        \* how the run ended ("running" until then)
    missed,         \* the list printed as "missed segments"
    output,         \* the bytes written to the output file, or NoFile
    md_pos,         \* history: 1-based position of the frame that completed metadata (0: none)
    stop_pos,       \* history: 1-based position of the 'H' frame that ended get_data (0: none)
    examined        \* history: how many times next() has opened each image

vars == <<frames, index, metadata, md_str, data_segments, total_md5, pc,
          outcome, missed, output, md_pos, stop_pos, examined>>

----------------------------------------------------------------------------
(* Bounds of the model *)

MaxFrames == 4

\* longest directory of the fair specification
MaxFairFrames == 3

(* Program constants *)

TagM == 77
TagD == 68
TagH == 72
BraceOpen == 123
BraceClose == 125
BLAKE2B_MAX_OUT == 64
MD5_LEN == 16

None == [none |-> TRUE]
NoFile == [written |-> FALSE, bytes |-> <<>>]
File(b) == [written |-> TRUE, bytes |-> b]

----------------------------------------------------------------------------
(* Byte-string helpers *)

\* Rust slice data[a..b] (0-based, b exclusive); callers check the range.
Slice(data, a, b) == SubSeq(data, a + 1, b)

\* The fold acc -> (acc * 31 + byte + 1) % 65521 over data[i..], left to right.
RECURSIVE MixFrom(_, _, _)
MixFrom(data, i, acc) ==
    IF i > Len(data) THEN acc
    ELSE MixFrom(data, i + 1, (acc * 31 + data[i] + 1) % 65521)

\* a * b modulo 65521 without leaving 32-bit integers
MulMod(a, b) == (((a * (b \div 256)) % 65521) * 256 + a * (b % 256)) % 65521

RECURSIVE Pow31(_)
Pow31(k) ==
    IF k = 0 THEN 1
    ELSE LET h == Pow31(k \div 2)
         IN IF k % 2 = 0 THEN MulMod(h, h) ELSE MulMod(MulMod(h, h), 31)

\* Sum of (data[i] + 1) * 31^(hi - i) over lo..hi, modulo 65521.
RECURSIVE PolyRange(_, _, _)
PolyRange(data, lo, hi) ==
    IF lo > hi THEN 0
    ELSE IF lo = hi THEN (data[lo] + 1) % 65521
    ELSE LET mid == (lo + hi) \div 2
         IN (MulMod(PolyRange(data, lo, mid), Pow31(hi - mid))
                + PolyRange(data, mid + 1, hi)) % 65521

\* MixFrom(data, 1, acc); a long input is folded by halves, which gives the
\* same number at a small evaluation depth.
Mix(data, acc) ==
    IF Len(data) <= 32 THEN MixFrom(data, 1, acc)
    ELSE (MulMod(acc % 65521, Pow31(Len(data))) + PolyRange(data, 1, Len(data))) % 65521

\* Blake2bVar::new(n), update(content), finalize_variable: an n-byte digest
\* that depends on every byte of the content, on its order and on n.
\* (the hash state m ranges over a one-element set, so that it is computed
\* once per digest)
VarHash(content, n) ==
    CHOOSE h \in { [k \in 1..n |-> (((m + 1) * (2 * k + 1) * 167) \div 16) % 256] :
                      m \in {Mix(content, 7 + n)} } : TRUE

\* md5::compute: a 16-byte digest.
Md5(data) ==
    LET m == Mix(data, 3)
    IN [k \in 1..MD5_LEN |-> (((m + 1) * (2 * k + 1) * 89) \div 8) % 256]

\* hex::encode: two hexadecimal digits per byte, high nibble first.
HexEncode(bytes) ==
    [i \in 1..(2 * Len(bytes)) |->
        IF i % 2 = 1 THEN bytes[(i + 1) \div 2] \div 16
                     ELSE bytes[i \div 2] % 16]

----------------------------------------------------------------------------
(* Frames.  A directory entry is an image that fails to load              *)
(* ("unloadable"), an image without a decodable code ("nocode"), an image  *)
(* whose code holds text that is not base64 ("notbase64"), or an image     *)
(* whose code carries the given payload bytes ("payload").                 *)

Unloadable == [kind |-> "unloadable", bytes |-> <<>>]
NoCode == [kind |-> "nocode", bytes |-> <<>>]
NotBase64 == [kind |-> "notbase64", bytes |-> <<>>]
Payload(b) == [kind |-> "payload", bytes |-> b]

\* ImageSequenceIterator::next: "end" at the end of the listing (index is
\* left alone), otherwise index is incremented and the image is opened;
\* an image that fails to open also yields Rust's None.
IterNext(fs, idx) ==
    IF idx = Len(fs) THEN [kind |-> "end", index |-> idx, img |-> NoCode]
    ELSE IF fs[idx + 1].kind = "unloadable"
         THEN [kind |-> "none", index |-> idx + 1, img |-> fs[idx + 1]]
         ELSE [kind |-> "some", index |-> idx + 1, img |-> fs[idx + 1]]

\* the image next() opened, if any, is counted once more
Examine(ex, n) ==
    IF n.kind = "end" THEN ex ELSE [ex EXCEPT ![n.index] = @ + 1]

\* mutant of tick_backward: the cursor goes back by two
tick_backward_two(idx) == IF idx > 1 THEN idx - 2 ELSE 0

\* mutant of tick_backward: the rewind is forgotten
tick_backward_none(idx) == idx

\* ImageSequenceIterator::tick_backward
tick_backward(idx) == IF idx > 0 THEN idx - 1 ELSE idx

\* decode: no grid or a grid that does not decode gives None; the text of a
\* decoded grid goes through BASE64_STANDARD.decode(..).unwrap()
Decode(img) ==
    CASE img.kind = "payload" -> [kind |-> "some", data |-> img.bytes]
      [] img.kind = "notbase64" -> [kind |-> "panic", data |-> <<>>]
      [] OTHER -> [kind |-> "none", data |-> <<>>]

----------------------------------------------------------------------------
(* Metadata text.  The JSON object is modelled by the five bytes          *)
(* "{" qrcode_count id_type hash_len "}", the id_type byte standing for    *)
(* the string "u<byte>".                                                   *)

IdTypeName(b) ==
    CASE b = 8 -> "u8"
      [] b = 16 -> "u16"
      [] b = 32 -> "u32"
      [] b = 64 -> "u64"
      [] OTHER -> "other"

MetadataText(count, idbits, hlen) == <<BraceOpen, count, idbits, hlen, BraceClose>>

\* std::str::from_utf8 on a metadata body (the texts of this model are ASCII)
IsUtf8(bytes) == \A i \in 1..Len(bytes) : bytes[i] < 128

\* serde_json::from_str::<QrSendMetadata>: Err unless the text is one record
ParseMetadata(text) ==
    IF Len(text) = 5 /\ text[1] = BraceOpen /\ text[5] = BraceClose
    THEN [kind |-> "ok",
          md |-> [qrcode_count |-> text[2], id_type |-> IdTypeName(text[3]),
                  hash_len |-> text[4]]]
    ELSE [kind |-> "err", md |-> None]

----------------------------------------------------------------------------
(* Segment parsing *)

RECURSIVE FromBEFrom(_, _, _)
FromBEFrom(bytes, i, acc) ==
    IF i > Len(bytes) THEN acc ELSE FromBEFrom(bytes, i + 1, acc * 256 + bytes[i])

\* u64/u32/u16/u8::from_be_bytes
from_be_bytes(bytes) == FromBEFrom(bytes, 1, 0)

IdLen(id_type) ==
    CASE id_type = "u64" -> 8
      [] id_type = "u32" -> 4
      [] id_type = "u16" -> 2
      [] id_type = "u8" -> 1
      [] OTHER -> 0

\* get_id_and_len: panics on an unknown id_type and on a body shorter than the id
get_id_and_len(data, md) ==
    IF IdLen(md.id_type) = 0 \/ Len(data) < IdLen(md.id_type)
    THEN [kind |-> "panic", id |-> 0, id_len |-> 0]
    ELSE [kind |-> "ok", id |-> from_be_bytes(Slice(data, 0, IdLen(md.id_type))),
          id_len |-> IdLen(md.id_type)]

\* QrSendData::from_bytes (data is the payload without its tag byte)
QrSendData_from_bytes(data, md) ==
    LET r == get_id_and_len(data, md) IN
    IF r.kind = "panic" \/ Len(data) < md.hash_len
       \/ r.id_len > Len(data) - md.hash_len
    THEN [kind |-> "panic", seg |-> None]
    ELSE [kind |-> "ok",
          seg |-> [id |-> r.id,
                   data |-> Slice(data, r.id_len, Len(data) - md.hash_len),
                   hash |-> Slice(data, Len(data) - md.hash_len, Len(data))]]

\* QrSendMd5Data::from_bytes: `data` is shadowed by the stripped body before
\* `hash` is sliced from it, so the second slice is taken from the body.
QrSendMd5Data_from_bytes(data, md) ==
    IF Len(data) < md.hash_len THEN [kind |-> "panic", seg |-> None]
    ELSE LET body == Slice(data, 0, Len(data) - md.hash_len) IN
         IF Len(body) < md.hash_len THEN [kind |-> "panic", seg |-> None]
         ELSE [kind |-> "ok",
               seg |-> [data |-> body,
                        hash |-> Slice(body, Len(body) - md.hash_len, Len(body))]]

----------------------------------------------------------------------------
(* Integrity verification *)

\* guess_hash_len, line 160: the candidate length i matches
GuessMatches(data, i) ==
    VarHash(Slice(data, 0, Len(data) - i), i) = Slice(data, Len(data) - i, Len(data))

\* guess_hash_len: the loop runs i = 1, 2, ..., data.len() - 1 and returns at
\* the first match; Blake2bVar::new(i).unwrap() panics when the loop reaches
\* a length above the largest Blake2b output size.
guess_hash_len(data) ==
    LET last == IF Len(data) - 1 > BLAKE2B_MAX_OUT THEN BLAKE2B_MAX_OUT
                ELSE Len(data) - 1
    IN IF \E i \in 1..last : GuessMatches(data, i)
       THEN [kind |-> "some",
             len |-> CHOOSE i \in 1..last :
                        /\ GuessMatches(data, i)
                        /\ \A j \in 1..(i - 1) : ~GuessMatches(data, j)]
       ELSE IF Len(data) - 1 > BLAKE2B_MAX_OUT THEN [kind |-> "panic", len |-> 0]
       ELSE [kind |-> "none", len |-> 0]

\* mutant of VerifyWithLen: the digests are not compared
VerifyWithLenUnchecked(data, hash_len) ==
    IF Len(data) < hash_len \/ hash_len > BLAKE2B_MAX_OUT THEN "panic"
    ELSE "true"

\* The second half of verify_segment, for a known hash_len
VerifyWithLen(data, hash_len) ==
    IF Len(data) < hash_len \/ hash_len > BLAKE2B_MAX_OUT THEN "panic"
    ELSE IF VarHash(Slice(data, 0, Len(data) - hash_len), hash_len)
              = Slice(data, Len(data) - hash_len, Len(data))
         THEN "true" ELSE "false"

\* QrSendDecoder::verify_segment
verify_segment(md, data) ==
    IF md # None THEN VerifyWithLen(data, md.hash_len)
    ELSE LET g == guess_hash_len(data) IN
         CASE g.kind = "none" -> "false"
           [] g.kind = "panic" -> "panic"
           [] OTHER -> VerifyWithLen(data, g.len)

----------------------------------------------------------------------------
(* The run.  Each scanning action is one iteration of the phase's         *)
(* `for img in img_iter` loop, from the call of next() to the `continue`   *)
(* or `return` that ends the iteration.                                    *)

Panic ==
    /\ outcome' = "panic"
    /\ pc' = "done"

\* mutant of push_str: the fragment replaces the buffer
push_str_overwrite(buf, fragment) == fragment

\* String::push_str (line 205)
push_str(buf, fragment) == buf \o fragment

\* mutant of get_data_arm: 'H' does not end the phase
get_data_arm_no_stop(tag) ==
    CASE tag = TagD -> "segment"
      [] OTHER -> "continue"

\* mutant of get_data_arm: 'M' falls into the 'D' arm
get_data_arm_m_as_d(tag) ==
    CASE tag = TagM -> "segment"
      [] tag = TagD -> "segment"
      [] tag = TagH -> "return"
      [] OTHER -> "continue"

\* the arms of `match data[0]` in get_data (lines 226-238)
get_data_arm(tag) ==
    CASE tag = TagM -> "continue"
      [] tag = TagD -> "segment"
      [] tag = TagH -> "return"
      [] OTHER -> "continue"

\* mutant of insert: an id that is already present keeps its segment
insert_keep_first(segments, id, seg) ==
    IF id \in DOMAIN segments THEN segments
    ELSE [k \in DOMAIN segments \cup {id} |->
             IF k = id THEN seg ELSE segments[k]]

\* HashMap::insert (line 232)
insert(segments, id, seg) ==
    [k \in DOMAIN segments \cup {id} |-> IF k = id THEN seg ELSE segments[k]]

\* the byte tested at line 209: the last byte before the guessed digest
LastBodyByte(data, hash_len) == data[Len(data) - hash_len]

\* QrSendDecoder::get_metadata, one loop iteration
GetMetadataStep ==
    /\ pc = "metadata"
    /\ LET n == IterNext(frames, index)
           d == Decode(n.img)
           v == verify_segment(metadata, d.data)
           g == guess_hash_len(d.data)
           isM == d.data[1] = TagM
           body == Slice(d.data, 1, Len(d.data) - g.len)
           text == IF isM THEN push_str(md_str, body) ELSE md_str
           parsed == ParseMetadata(text)
       IN
       /\ index' = n.index
       /\ examined' = Examine(examined, n)
       /\ UNCHANGED <<frames, data_segments, total_md5, missed, output, stop_pos>>
       /\ CASE n.kind # "some" ->
                 \* the loop ends, get_metadata returns without metadata
                 /\ pc' = "data"
                 /\ UNCHANGED <<metadata, md_str, outcome, md_pos>>
            [] n.kind = "some" /\ d.kind = "none" ->
                 UNCHANGED <<metadata, md_str, pc, outcome, md_pos>>
            [] n.kind = "some" /\ d.kind = "panic" ->
                 /\ Panic
                 /\ UNCHANGED <<metadata, md_str, md_pos>>
            [] n.kind = "some" /\ d.kind = "some" /\ v = "false" ->
                 UNCHANGED <<metadata, md_str, pc, outcome, md_pos>>
            [] n.kind = "some" /\ d.kind = "some" /\ v = "panic" ->
                 /\ Panic
                 /\ UNCHANGED <<metadata, md_str, md_pos>>
            [] n.kind = "some" /\ d.kind = "some" /\ v = "true" ->
                 IF isM /\ ~IsUtf8(body)
                 THEN /\ Panic
                      /\ UNCHANGED <<metadata, md_str, md_pos>>
                 ELSE IF LastBodyByte(d.data, g.len) # BraceClose
                 THEN /\ md_str' = text
                      /\ UNCHANGED <<metadata, pc, outcome, md_pos>>
                 ELSE IF parsed.kind = "err"
                 THEN /\ md_str' = text
                      /\ Panic
                      /\ UNCHANGED <<metadata, md_pos>>
                 ELSE /\ md_str' = text
                      /\ metadata' = parsed.md
                      /\ md_pos' = n.index
                      /\ pc' = "data"
                      /\ UNCHANGED outcome

\* QrSendDecoder::get_data, one loop iteration
GetDataStep ==
    /\ pc = "data"
    /\ LET n == IterNext(frames, index)
           d == Decode(n.img)
           v == verify_segment(metadata, d.data)
           tag == d.data[1]
           r == QrSendData_from_bytes(Tail(d.data), metadata)
       IN
       /\ index' = n.index
       /\ examined' = Examine(examined, n)
       /\ UNCHANGED <<frames, metadata, md_str, total_md5, missed, output, md_pos>>
       /\ CASE n.kind # "some" ->
                 /\ pc' = "rewind"
                 /\ UNCHANGED <<data_segments, outcome, stop_pos>>
            [] n.kind = "some" /\ d.kind = "none" ->
                 UNCHANGED <<data_segments, pc, outcome, stop_pos>>
            [] n.kind = "some" /\ d.kind = "panic" ->
                 /\ Panic
                 /\ UNCHANGED <<data_segments, stop_pos>>
            [] n.kind = "some" /\ d.kind = "some" /\ v = "false" ->
                 UNCHANGED <<data_segments, pc, outcome, stop_pos>>
            [] n.kind = "some" /\ d.kind = "some" /\ v = "panic" ->
                 /\ Panic
                 /\ UNCHANGED <<data_segments, stop_pos>>
            [] n.kind = "some" /\ d.kind = "some" /\ v = "true" ->
                 IF Len(d.data) = 0
                 THEN /\ Panic
                      /\ UNCHANGED <<data_segments, stop_pos>>
                 ELSE IF get_data_arm(tag) = "segment"
                 THEN IF metadata = None \/ r.kind = "panic"
                      THEN /\ Panic
                           /\ UNCHANGED <<data_segments, stop_pos>>
                      ELSE /\ data_segments' = insert(data_segments, r.seg.id, r.seg)
                           /\ UNCHANGED <<pc, outcome, stop_pos>>
                 ELSE IF get_data_arm(tag) = "return"
                 THEN /\ pc' = "rewind"
                      /\ stop_pos' = n.index
                      /\ UNCHANGED <<data_segments, outcome>>
                 ELSE UNCHANGED <<data_segments, pc, outcome, stop_pos>>

\* main, line 280: img_iter.tick_backward()
TickBackward ==
    /\ pc = "rewind"
    /\ index' = tick_backward(index)
    /\ pc' = "md5"
    /\ UNCHANGED <<frames, metadata, md_str, data_segments, total_md5, outcome,
                   missed, output, md_pos, stop_pos, examined>>

\* QrSendDecoder::get_md5, one loop iteration
GetMd5Step ==
    /\ pc = "md5"
    /\ LET n == IterNext(frames, index)
           d == Decode(n.img)
           v == verify_segment(metadata, d.data)
           tag == d.data[1]
           r == QrSendMd5Data_from_bytes(Tail(d.data), metadata)
       IN
       /\ index' = n.index
       /\ examined' = Examine(examined, n)
       /\ UNCHANGED <<frames, metadata, md_str, data_segments, missed, output,
                      md_pos, stop_pos>>
       /\ CASE n.kind # "some" ->
                 /\ pc' = "reassemble"
                 /\ UNCHANGED <<total_md5, outcome>>
            [] n.kind = "some" /\ d.kind = "none" ->
                 UNCHANGED <<total_md5, pc, outcome>>
            [] n.kind = "some" /\ d.kind = "panic" ->
                 /\ Panic
                 /\ UNCHANGED total_md5
            [] n.kind = "some" /\ d.kind = "some" /\ v = "false" ->
                 UNCHANGED <<total_md5, pc, outcome>>
            [] n.kind = "some" /\ d.kind = "some" /\ v = "panic" ->
                 /\ Panic
                 /\ UNCHANGED total_md5
            [] n.kind = "some" /\ d.kind = "some" /\ v = "true" ->
                 IF Len(d.data) = 0
                 THEN /\ Panic
                      /\ UNCHANGED total_md5
                 ELSE IF tag = TagH
                 THEN IF metadata = None \/ r.kind = "panic"
                      THEN /\ Panic
                           /\ UNCHANGED total_md5
                      ELSE /\ total_md5' = r.seg.data
                           /\ pc' = "reassemble"
                           /\ UNCHANGED outcome
                 ELSE UNCHANGED <<total_md5, pc, outcome>>

----------------------------------------------------------------------------
(* Reassembly (main, lines 282-307) *)

\* the loop of lines 287-290: payloads of ids i, i+1, ..., n-1 in that order
RECURSIVE ConcatFrom(_, _, _)
ConcatFrom(segs, i, n) ==
    IF i >= n THEN <<>> ELSE segs[i].data \o ConcatFrom(segs, i + 1, n)

\* mutant of ConcatSegments: the ids are walked downwards
RECURSIVE ConcatDown(_, _)
ConcatDown(segs, i) ==
    IF i <= 0 THEN <<>> ELSE segs[i - 1].data \o ConcatDown(segs, i - 1)

ConcatSegmentsDescending(segs, n) == ConcatDown(segs, n)

ConcatSegments(segs, n) == ConcatFrom(segs, 0, n)

\* lines 302-304: the ids of i..n-1 that are not keys, ascending
RECURSIVE MissedFrom(_, _, _)
MissedFrom(keys, i, n) ==
    IF i >= n THEN <<>>
    ELSE IF i \in keys THEN MissedFrom(keys, i + 1, n)
         ELSE <<i>> \o MissedFrom(keys, i + 1, n)

missed_segment(keys, n) == MissedFrom(keys, 0, n)

\* mutant of Md5Matches: the received text only has to be a prefix
Md5MatchesPrefix(computed, received) ==
    /\ Len(received) <= Len(computed)
    /\ HexEncode(SubSeq(computed, 1, Len(received))) = HexEncode(received)

\* line 292: the comparison of the two hexadecimal strings
Md5Matches(computed, received) == HexEncode(computed) = HexEncode(received)

Reassemble ==
    /\ pc = "reassemble"
    /\ pc' = "done"
    /\ UNCHANGED <<frames, index, metadata, md_str, data_segments, total_md5,
                   md_pos, stop_pos, examined>>
    /\ IF metadata = None
       THEN /\ outcome' = "no_metadata"
            /\ UNCHANGED <<missed, output>>
       ELSE LET count == metadata.qrcode_count
                keys == DOMAIN data_segments
                data == ConcatSegments(data_segments, count)
            IN
            IF count = Cardinality(keys)
            THEN IF \E i \in 0..(count - 1) : i \notin keys
                 THEN /\ outcome' = "panic"
                      /\ UNCHANGED <<missed, output>>
                 ELSE IF Md5Matches(Md5(data), total_md5)
                 THEN /\ outcome' = "written"
                      /\ output' = File(data)
                      /\ UNCHANGED missed
                 ELSE /\ outcome' = "md5_failed"
                      /\ UNCHANGED <<missed, output>>
            ELSE /\ outcome' = "missing"
                 /\ missed' = missed_segment(keys, count)
                 /\ UNCHANGED output

----------------------------------------------------------------------------
(* Frame sequences of the model *)

\* tag, body and the digest of tag and body, hlen bytes long
MkFrame(tag, body, hlen) ==
    Payload(<<tag>> \o body \o VarHash(<<tag>> \o body, hlen))

RECURSIVE Pow256(_)
Pow256(e) == IF e = 0 THEN 1 ELSE 256 * Pow256(e - 1)

to_be_bytes(id, w) == [k \in 1..w |-> (id \div Pow256(w - k)) % 256]

\* the id width a sender uses for the metadata m (one byte when the
\* declared id type is not one the receiver knows)
SendIdLen(m) == IF IdLen(IdTypeName(m.idbits)) = 0 THEN 1 ELSE IdLen(IdTypeName(m.idbits))

MFrame(m) == MkFrame(TagM, MetadataText(m.count, m.idbits, m.hlen), m.hlen)
DFrame(m, id, payload) == MkFrame(TagD, to_be_bytes(id, SendIdLen(m)) \o payload, m.hlen)
HFrame(m, checksum) == MkFrame(TagH, checksum, m.hlen)

\* the transmissions of the model: declared count, id type and digest length
MetaU8 == [count |-> 2, idbits |-> 8, hlen |-> 2]
MetaU16 == [count |-> 2, idbits |-> 16, hlen |-> 3]
MetaBadId == [count |-> 1, idbits |-> 24, hlen |-> 2]

MetaChoices == {MetaU8, MetaU16, MetaBadId}

\* the frames a directory may hold for the transmission m
Alphabet(m) ==
    IF m = MetaU8
    THEN { MFrame(m),
           DFrame(m, 0, <<65>>), DFrame(m, 1, <<66>>), DFrame(m, 2, <<67>>),
           HFrame(m, Md5(<<65, 66>>)),
           Unloadable,
           Payload(<<TagD>>),
           MkFrame(88, <<BraceClose>>, m.hlen) }
    ELSE IF m = MetaU16
    THEN { MFrame(m),
           DFrame(m, 0, <<65>>), DFrame(m, 1, <<66>>),
           HFrame(m, Md5(<<65, 66>>)), HFrame(m, Md5(<<66, 65>>)),
           NoCode }
    ELSE { MFrame(m), DFrame(m, 0, <<65>>), HFrame(m, Md5(<<65>>)), NoCode,
           NotBase64 }

EmptySegments == [k \in {} |-> None]

InitOver(fs) ==
    /\ frames = fs
    /\ index = 0
    /\ metadata = None
    /\ md_str = <<>>
    /\ data_segments = EmptySegments
    /\ total_md5 = <<>>
    /\ pc = "metadata"
    /\ outcome = "running"
    /\ missed = <<>>
    /\ output = NoFile
    /\ md_pos = 0
    /\ stop_pos = 0
    /\ examined = [q \in 1..Len(fs) |-> 0]

Init ==
    \E m \in MetaChoices : \E n \in 0..MaxFrames :
        \E fs \in [1..n -> Alphabet(m)] : InitOver(fs)

Next ==
    \/ GetMetadataStep
    \/ GetDataStep
    \/ TickBackward
    \/ GetMd5Step
    \/ Reassemble

Spec == Init /\ [][Next]_vars

----------------------------------------------------------------------------
(* Vocabulary of the properties: what the protocol says about a frame,    *)
(* stated on the frame sequence and independently of the decoder.          *)

Running == pc \in {"metadata", "data", "md5"} /\ index < Len(frames)
Current == frames[index + 1]

\* the digest of length h at the end of b is the hash of what precedes it
DigestMatches(b, h) ==
    /\ h <= Len(b)
    /\ VarHash(SubSeq(b, 1, Len(b) - h), h) = SubSeq(b, Len(b) - h + 1, Len(b))

\* a payload verifies: with the declared hash length once metadata is known,
\* with some length 1..|b|-1 before
Verifies(b, md) ==
    IF md # None THEN DigestMatches(b, md.hash_len)
    ELSE \E h \in 1..(Len(b) - 1) : DigestMatches(b, h)

VerifiedWithTag(f, md, tag) ==
    f.kind = "payload" /\ Verifies(f.bytes, md) /\ Len(f.bytes) > 0 /\ f.bytes[1] = tag

\* a verified 'D' frame with room for its id field
IsSegmentFrame(f, md) ==
    /\ VerifiedWithTag(f, md, TagD)
    /\ IdLen(md.id_type) > 0
    /\ Len(f.bytes) >= 1 + IdLen(md.id_type) + md.hash_len

SegmentId(f, md) ==
    LET w == IdLen(md.id_type)
        Val[k \in 0..w] == IF k = 0 THEN 0 ELSE Val[k - 1] * 256 + f.bytes[1 + k]
    IN Val[w]

SegmentPayload(f, md) ==
    SubSeq(f.bytes, 2 + IdLen(md.id_type), Len(f.bytes) - md.hash_len)

\* the checksum an 'H' frame carries: its body without tag and digest
ChecksumCarried(f, md) == SubSeq(f.bytes, 2, Len(f.bytes) - md.hash_len)

\* positions scanned by get_data as content: after the frame that completed
\* the metadata, before the 'H' frame that ended the phase (or, when no 'H'
\* frame ended it, up to the image that failed to load or the last frame)
DataWindow ==
    {q \in 1..Len(frames) :
        /\ q > md_pos
        /\ IF stop_pos # 0 THEN q < stop_pos
           ELSE \A r \in (md_pos + 1)..q : frames[r].kind # "unloadable"}

\* payloads of the accepted segments 0..n-1, ascending
AcceptedPayloads(n) ==
    LET Acc[k \in 0..n] ==
            IF k = 0 THEN <<>> ELSE Acc[k - 1] \o data_segments[k - 1].data
    IN Acc[n]

\* payload of the last 'D' frame with this id in the data window
LastPayloadOf(id) ==
    LET qs == {q \in DataWindow : IsSegmentFrame(frames[q], metadata)
                                  /\ SegmentId(frames[q], metadata) = id}
        last == CHOOSE q \in qs : \A r \in qs : r <= q
    IN SegmentPayload(frames[last], metadata)

ScannedPayloads(n) ==
    LET Acc[k \in 0..n] ==
            IF k = 0 THEN <<>> ELSE Acc[k - 1] \o LastPayloadOf(k - 1)
    IN Acc[n]

FullSet == metadata # None /\ DOMAIN data_segments = 0..(metadata.qrcode_count - 1)

----------------------------------------------------------------------------
(* C1: a file is written only if, at the end of the run, metadata was     *)
(* parsed, the accepted segments are exactly the ids 0..segment_count-1    *)
(* and the checksum of their concatenation equals the accepted checksum;   *)
(* in every other run no file is written.                                  *)

FileCondition ==
    /\ pc = "done"
    /\ FullSet
    /\ total_md5 = Md5(AcceptedPayloads(metadata.qrcode_count))

C1_FileOnlyWhenComplete ==
    /\ output.written => FileCondition
    /\ ~FileCondition => output = NoFile

C1_Witness == pc = "done" /\ output.written /\ outcome = "written"

(* C2: when a file is written for segment_count = N, its bytes are the     *)
(* payloads of ids 0..N-1 in ascending id order, whatever the order in     *)
(* which the 'D' frames were scanned between the metadata-completing       *)
(* frame and the terminating 'H' frame.                                    *)

C2_OrderCorrect ==
    output.written =>
        /\ FullSet
        /\ \A id \in 0..(metadata.qrcode_count - 1) :
              \E q \in DataWindow : IsSegmentFrame(frames[q], metadata)
                                    /\ SegmentId(frames[q], metadata) = id
        /\ output.bytes = ScannedPayloads(metadata.qrcode_count)

\* a file was written from 'D' frames scanned in descending id order
C2_Witness ==
    /\ output.written
    /\ \E p, q \in DataWindow :
          /\ p < q
          /\ IsSegmentFrame(frames[p], metadata)
          /\ IsSegmentFrame(frames[q], metadata)
          /\ SegmentId(frames[p], metadata) > SegmentId(frames[q], metadata)

(* C8: when get_data stops at a verified 'H' frame at position p, the      *)
(* rewind moves the cursor back by exactly one, so that get_md5 first      *)
(* examines frame p again; the checksum recorded is the one that frame     *)
(* carries, the frame is the first verified 'H' frame after the metadata,  *)
(* the checksum is written at most once and nothing changes it later.      *)

C8_Step ==
    /\ (pc = "data" /\ stop_pos' # stop_pos) =>
          /\ stop_pos = 0
          /\ stop_pos' = index + 1
          /\ index' = index + 1
          /\ VerifiedWithTag(frames[stop_pos'], metadata, TagH)
          /\ metadata # None =>
                \A q \in (md_pos + 1)..(stop_pos' - 1) :
                    ~VerifiedWithTag(frames[q], metadata, TagH)
    /\ (pc = "rewind" /\ stop_pos # 0) =>
          /\ index' = index - 1
          /\ index' + 1 = stop_pos
          /\ pc' = "md5"
    /\ (total_md5' # total_md5) =>
          /\ pc = "md5"
          /\ total_md5 = <<>>
          /\ pc' = "reassemble"
          /\ stop_pos # 0 =>
                /\ index + 1 = stop_pos
                /\ total_md5' = ChecksumCarried(frames[stop_pos], metadata)
    /\ (pc \in {"reassemble", "done"}) => total_md5' = total_md5

C8_RewindAndChecksum == [][C8_Step]_vars

\* a checksum has been recorded after get_data stopped at an 'H' frame
C8_Witness == stop_pos # 0 /\ total_md5 # <<>> /\ pc = "reassemble"

----------------------------------------------------------------------------
(* Statements of the specification that the program does not satisfy.      *)

(* C3: whenever the run reaches reassembly with metadata parsed and some   *)
(* id of 0..segment_count-1 absent from the accepted set, it reports as    *)
(* missing exactly {0..segment_count-1} minus the accepted ids and writes  *)
(* no file.                                                                *)

C3_Step ==
    (/\ pc = "reassemble"
     /\ metadata # None
     /\ \E i \in 0..(metadata.qrcode_count - 1) : i \notin DOMAIN data_segments)
    => /\ outcome' = "missing"
       /\ {missed'[k] : k \in 1..Len(missed')}
             = (0..(metadata.qrcode_count - 1)) \ DOMAIN data_segments
       /\ output' = NoFile

C3_MissingReported == [][C3_Step]_vars

(* C4: when all segments 0..segment_count-1 are accepted but the checksum  *)
(* of their concatenation differs from the accepted checksum payload, or   *)
(* no checksum was accepted, the run reports checksum failure (not         *)
(* missing segments) and writes no file.                                   *)

C4_Step ==
    (/\ pc = "reassemble"
     /\ metadata # None
     /\ \A i \in 0..(metadata.qrcode_count - 1) : i \in DOMAIN data_segments
     /\ total_md5 # Md5(AcceptedPayloads(metadata.qrcode_count)))
    => /\ outcome' = "md5_failed"
       /\ output' = NoFile

C4_ChecksumFailureReported == [][C4_Step]_vars

(* C5: when metadata never parses, no frame is interpreted as a content    *)
(* or checksum segment and the run ends normally with the no-transmission  *)
(* outcome and no file; it never aborts.                                   *)

C5_NoMetadataEndsNormally ==
    /\ (metadata = None) =>
          /\ outcome \in {"running", "no_metadata"}
          /\ DOMAIN data_segments = {}
          /\ total_md5 = <<>>
          /\ output = NoFile
    /\ (metadata = None /\ pc = "done") => outcome = "no_metadata"

(* C6: in every phase a frame without optical code, a frame that fails     *)
(* verification (an empty payload and a payload shorter than the declared  *)
(* hash length included) or a verified frame with an unrecognized tag      *)
(* never aborts the run: metadata, segment mapping and checksum are        *)
(* unchanged and the cursor advances to the next frame.                    *)

Ignorable(f, md) ==
    \/ f.kind = "nocode"
    \/ f.kind = "payload" /\ ~Verifies(f.bytes, md)
    \/ f.kind = "payload" /\ Verifies(f.bytes, md) /\ Len(f.bytes) > 0
          /\ f.bytes[1] \notin {TagM, TagD, TagH}

C6_Step ==
    (Running /\ Ignorable(Current, metadata))
    => /\ outcome' = "running"
       /\ metadata' = metadata
       /\ data_segments' = data_segments
       /\ total_md5' = total_md5
       /\ index' = index + 1

C6_IgnorableFramesSkipped == [][C6_Step]_vars

(* C7: if the completed metadata declares an id width other than 1, 2, 4   *)
(* or 8 bytes the run is fatal: it never reaches reassembly, reports       *)
(* missing segments or writes a file, whatever frames follow.              *)

C7_BadIdWidthIsFatal ==
    (metadata # None /\ IdLen(metadata.id_type) \notin {1, 2, 4, 8})
    => /\ pc # "reassemble"
       /\ outcome \in {"running", "panic"}
       /\ output = NoFile

(* C9: the keys of the segment mapping are ids below segment_count, so     *)
(* when the number of accepted segments equals segment_count every id of   *)
(* 0..segment_count-1 is present and the lookup of reassembly never fails. *)

C9_KeysBelowCount ==
    /\ \A k \in DOMAIN data_segments :
          metadata # None /\ k < metadata.qrcode_count
    /\ (metadata # None /\ Cardinality(DOMAIN data_segments) = metadata.qrcode_count)
          => DOMAIN data_segments = 0..(metadata.qrcode_count - 1)

(* C10: during ACQUIRE_METADATA a verified frame whose tag is not 'M' is    *)
(* ignored whatever its body (a body ending in a closing brace included):  *)
(* buffer and metadata unchanged, no parse, no transition, and scanning    *)
(* continues with the next frame.                                          *)

C10_Step ==
    (/\ pc = "metadata"
     /\ index < Len(frames)
     /\ Current.kind = "payload"
     /\ Verifies(Current.bytes, None)
     /\ Current.bytes[1] # TagM)
    => /\ md_str' = md_str
       /\ metadata' = metadata
       /\ pc' = "metadata"
       /\ outcome' = "running"
       /\ index' = index + 1

C10_NonMetadataIgnored == [][C10_Step]_vars

----------------------------------------------------------------------------
(* Metadata acquisition: a transmission of one segment whose metadata      *)
(* arrives whole or split over two 'M' frames, among frames without code   *)
(* and corrupted frames.                                                   *)

MetaOne == [count |-> 1, idbits |-> 8, hlen |-> 2]

MHead(m) == MkFrame(TagM, SubSeq(MetadataText(m.count, m.idbits, m.hlen), 1, 3), m.hlen)
MTail(m) == MkFrame(TagM, SubSeq(MetadataText(m.count, m.idbits, m.hlen), 4, 5), m.hlen)

\* a payload whose trailing bytes are not the digest of what precedes them
Corrupt(f) == Payload([f.bytes EXCEPT ![Len(f.bytes)] = (@ + 1) % 256])

MetaAlphabet ==
    { MFrame(MetaOne), MHead(MetaOne), MTail(MetaOne),
      NoCode, Corrupt(MHead(MetaOne)),
      DFrame(MetaOne, 0, <<65>>), HFrame(MetaOne, Md5(<<65>>)) }

InitMeta ==
    \E n \in 0..MaxFrames : \E fs \in [1..n -> MetaAlphabet] : InitOver(fs)

SpecMeta == InitMeta /\ [][Next]_vars

\* the shortest digest length under which the payload verifies
FirstDigestLen(b) ==
    CHOOSE h \in 1..(Len(b) - 1) :
        /\ DigestMatches(b, h)
        /\ \A g \in 1..(h - 1) : ~DigestMatches(b, g)

\* tag and digest stripped
BodyOf(f) == SubSeq(f.bytes, 2, Len(f.bytes) - FirstDigestLen(f.bytes))

IsMetaFrame(f) == VerifiedWithTag(f, None, TagM)

EndsWithBrace(f) == Len(BodyOf(f)) > 0 /\ BodyOf(f)[Len(BodyOf(f))] = BraceClose

\* bodies of the 'M' frames among the first n frames, in traversal order
MetaBodies(n) ==
    LET Acc[k \in 0..n] ==
            IF k = 0 THEN <<>>
            ELSE IF IsMetaFrame(frames[k]) THEN Acc[k - 1] \o BodyOf(frames[k])
                 ELSE Acc[k - 1]
    IN Acc[n]

\* the first n frames are 'M' frames, frames without code or frames that
\* do not verify
OnlyMetaFrames(n) ==
    \A q \in 1..n :
        \/ frames[q].kind = "nocode"
        \/ frames[q].kind = "payload" /\ ~Verifies(frames[q].bytes, None)
        \/ IsMetaFrame(frames[q])

RecordOf(m) ==
    [qrcode_count |-> m.count, id_type |-> IdTypeName(m.idbits), hash_len |-> m.hlen]

(* C11: for metadata split over verified 'M' frames scanned in order       *)
(* (possibly among undecodable or unverifiable frames) the buffer grows    *)
(* by each 'M' body in traversal order, it is parsed only at the first     *)
(* 'M' frame whose body ends with a closing brace, the text parsed is the  *)
(* concatenation of the bodies, and the parsed record is the original.     *)

C11_Step ==
    (pc = "metadata" /\ index < Len(frames) /\ OnlyMetaFrames(index + 1)) =>
        /\ (IsMetaFrame(Current) /\ ~EndsWithBrace(Current)) =>
              /\ md_str' = md_str \o BodyOf(Current)
              /\ metadata' = None
              /\ pc' = "metadata"
        /\ (metadata' # metadata) =>
              /\ IsMetaFrame(Current)
              /\ EndsWithBrace(Current)
              /\ \A q \in 1..index : ~(IsMetaFrame(frames[q]) /\ EndsWithBrace(frames[q]))
              /\ md_str' = MetaBodies(index + 1)
              /\ md_pos' = index + 1
              /\ md_str' = MetadataText(MetaOne.count, MetaOne.idbits, MetaOne.hlen)
                    => metadata' = RecordOf(MetaOne)

C11_MetadataAccumulation == [][C11_Step]_vars

\* metadata was parsed from two fragments with another frame between them
C11_Witness ==
    /\ metadata = RecordOf(MetaOne)
    /\ md_pos >= 3
    /\ frames[md_pos] = MTail(MetaOne)
    /\ \E q \in 1..(md_pos - 2) :
          /\ frames[q] = MHead(MetaOne)
          /\ \A r \in (q + 1)..(md_pos - 1) : ~IsMetaFrame(frames[r])

----------------------------------------------------------------------------
(* Data acquisition: a transmission of two segments with two-byte ids,     *)
(* with a repeated metadata frame of another text, a repeated id, a        *)
(* corrupted segment and a segment frame too short for its id; and a       *)
(* transmission whose digests are longer than the md5 checksum.            *)

MetaData == [count |-> 2, idbits |-> 16, hlen |-> 2]
MetaWide == [count |-> 1, idbits |-> 8, hlen |-> MD5_LEN + 1]

\* an 'M' frame carrying another metadata text under the same digest length
MFrameAlt(m) == MkFrame(TagM, MetadataText(m.count + 1, 8, m.hlen), m.hlen)

\* a verified 'D' frame whose body is one byte short of the id field
DFrameShort(m) == MkFrame(TagD, [k \in 1..(SendIdLen(m) - 1) |-> 7], m.hlen)

DataAlphabet(m) ==
    IF m = MetaData
    THEN { MFrame(m), MFrameAlt(m),
           DFrame(m, 0, <<65>>), DFrame(m, 0, <<90>>), DFrame(m, 1, <<66>>),
           HFrame(m, Md5(<<65, 66>>)),
           Corrupt(DFrame(m, 1, <<67>>)),
           DFrameShort(m) }
    ELSE { MFrame(m), DFrame(m, 0, <<65>>), HFrame(m, Md5(<<65>>)) }

InitData ==
    \E m \in {MetaData, MetaWide} : \E n \in 0..MaxFrames :
        \E fs \in [1..n -> DataAlphabet(m)] : InitOver(fs)

SpecData == InitData /\ [][Next]_vars

\* body length of a frame: without the tag and the declared digest
BodyLen(f, md) == Len(f.bytes) - 1 - md.hash_len

(* C12: a frame that passes verification but whose body cannot be parsed   *)
(* for its tag (a 'D' frame with a body shorter than the id width, an 'H'  *)
(* frame with a body shorter than the checksum) is discarded silently:     *)
(* decoder state unchanged, no abort, the loop advances to the next frame. *)

Unparsable(f, md) ==
    \/ pc = "data" /\ VerifiedWithTag(f, md, TagD) /\ BodyLen(f, md) < IdLen(md.id_type)
    \/ pc = "md5" /\ VerifiedWithTag(f, md, TagH) /\ BodyLen(f, md) < MD5_LEN

C12_Step ==
    (/\ pc \in {"data", "md5"}
     /\ index < Len(frames)
     /\ metadata # None
     /\ Unparsable(Current, metadata))
    => /\ data_segments' = data_segments
       /\ total_md5' = total_md5
       /\ metadata' = metadata
       /\ outcome' = "running"
       /\ pc' = pc
       /\ index' = index + 1

C12_UnparsableDiscarded == [][C12_Step]_vars

(* C13: for every declared hash length h >= 1 (h > 16 included) a verified *)
(* 'H' frame made of a 16-byte checksum c and an h-byte digest makes the   *)
(* checksum phase record exactly c as the whole-file checksum and stop     *)
(* scanning.                                                               *)

C13_Step ==
    (/\ pc = "md5"
     /\ index < Len(frames)
     /\ metadata # None
     /\ metadata.hash_len >= 1
     /\ VerifiedWithTag(Current, metadata, TagH)
     /\ BodyLen(Current, metadata) = MD5_LEN)
    => /\ total_md5' = ChecksumCarried(Current, metadata)
       /\ pc' = "reassemble"
       /\ outcome' = "running"

C13_ChecksumRecorded == [][C13_Step]_vars

(* C14: in every reachable state each entry id -> payload of the segment   *)
(* mapping comes from a 'D' frame whose trailing hash_len bytes (hash_len  *)
(* as declared by the metadata) are the hash of its tag and body, whose    *)
(* big-endian id field is id and whose remaining body bytes are payload.   *)

C14_SegmentsVerified ==
    \A id \in DOMAIN data_segments :
        /\ metadata # None
        /\ \E q \in 1..Len(frames) :
              /\ IsSegmentFrame(frames[q], metadata)
              /\ SegmentId(frames[q], metadata) = id
              /\ SegmentPayload(frames[q], metadata) = data_segments[id].data
              /\ data_segments[id].hash
                    = VarHash(SubSeq(frames[q].bytes, 1, Len(frames[q].bytes) - metadata.hash_len),
                              metadata.hash_len)

\* segment 1 was accepted after a corrupted frame of the same id was scanned
C14_Witness ==
    /\ 1 \in DOMAIN data_segments
    /\ data_segments[1].data = <<66>>
    /\ \E q \in DataWindow :
          /\ q <= index
          /\ frames[q] = Corrupt(DFrame(MetaData, 1, <<67>>))

\* the data phase has returned and the run has not aborted
AfterData ==
    \/ pc \in {"rewind", "md5", "reassemble"}
    \/ pc = "done" /\ outcome # "panic"

\* ids of the verified 'D' frames of the data window
WindowIds ==
    { SegmentId(frames[q], metadata) :
        q \in {p \in DataWindow : IsSegmentFrame(frames[p], metadata)} }

(* C15: duplicate ids are last-seen-wins: after the data phase, for every  *)
(* id in the mapping the stored payload is the payload of the last         *)
(* verified 'D' frame with that id scanned in the data phase, and the      *)
(* number of entries is the number of distinct ids accepted.               *)

C15_LastSeenWins ==
    AfterData =>
        IF metadata = None THEN data_segments = EmptySegments
        ELSE /\ DOMAIN data_segments = WindowIds
             /\ \A id \in DOMAIN data_segments : data_segments[id].data = LastPayloadOf(id)
             /\ Cardinality(DOMAIN data_segments) = Cardinality(WindowIds)

\* id 0 was sent twice with different payloads and the second one is kept
C15_Witness ==
    /\ AfterData
    /\ metadata # None
    /\ \E q1, q2 \in DataWindow :
          /\ q1 < q2
          /\ frames[q1] = DFrame(MetaData, 0, <<65>>)
          /\ frames[q2] = DFrame(MetaData, 0, <<90>>)
    /\ 0 \in DOMAIN data_segments
    /\ data_segments[0].data = <<90>>
    /\ Cardinality(DOMAIN data_segments) = 1

(* C16: once metadata has been parsed it is immutable: no later frame of   *)
(* the data or checksum phase changes it, and a verified 'M' frame scanned *)
(* in the data phase (even one carrying another metadata text) leaves      *)
(* metadata, the segment mapping and the checksum unchanged.               *)

C16_Step ==
    /\ metadata # None => metadata' = metadata
    /\ (/\ pc = "data"
        /\ index < Len(frames)
        /\ metadata # None
        /\ VerifiedWithTag(Current, metadata, TagM))
       => /\ metadata' = metadata
          /\ data_segments' = data_segments
          /\ total_md5' = total_md5
          /\ md_str' = md_str
          /\ pc' = "data"
          /\ outcome' = "running"

C16_MetadataImmutable == [][C16_Step]_vars

\* an 'M' frame with another text has just been scanned by the data phase
C16_Witness ==
    /\ pc = "data"
    /\ metadata = RecordOf(MetaData)
    /\ md_pos >= 1
    /\ index > md_pos
    /\ frames[index] = MFrameAlt(MetaData)

(* C17: an image that cannot be loaded is skipped like any other           *)
(* unreadable frame: it does not end the phase that meets it, the frames   *)
(* after it are still examined by that phase, and a following verified     *)
(* 'H' frame is still accepted as the checksum.                            *)

C17_Step ==
    (Running /\ Current.kind = "unloadable")
    => /\ pc' = pc
       /\ index' = index + 1
       /\ outcome' = "running"

C17_UnloadableSkipped == [][C17_Step]_vars

----------------------------------------------------------------------------
(* Termination.  main is a sequential program: whenever a step is          *)
(* possible it is eventually taken, which is weak fairness of Next.  The   *)
(* directory holds frames of a one-segment transmission and images that    *)
(* fail to load.                                                           *)

FairAlphabet ==
    { MFrame(MetaOne), DFrame(MetaOne, 0, <<65>>), HFrame(MetaOne, Md5(<<65>>)),
      Unloadable }

InitFair ==
    \E n \in 0..MaxFairFrames : \E fs \in [1..n -> FairAlphabet] : InitOver(fs)

SpecFair == InitFair /\ [][Next]_vars /\ WF_vars(Next)

PhaseRank(p) ==
    CASE p = "metadata" -> 0
      [] p = "data" -> 1
      [] p = "rewind" -> 2
      [] p = "md5" -> 3
      [] p = "reassemble" -> 4
      [] OTHER -> 5

TwiceExamined == {q \in 1..Len(frames) : examined[q] >= 2}

(* C18: every run over a finite frame sequence terminates: the cursor      *)
(* stays within 0..number of frames and only moves forward, except for     *)
(* one rewind of at most one position after the data phase (a no-op at     *)
(* position 0), so every frame is examined at most once, except the frame  *)
(* at the rewound position, which is examined at most twice.               *)

C18_Step ==
    /\ PhaseRank(pc') >= PhaseRank(pc)
    /\ pc = "rewind" => /\ index' = IF index = 0 THEN 0 ELSE index - 1
                        /\ PhaseRank(pc') > PhaseRank(pc)
    /\ pc # "rewind" => index' \in {index, index + 1}
    /\ pc' = "rewind" => pc = "data"

C18_Bounded ==
    /\ index \in 0..Len(frames)
    /\ \A q \in 1..Len(frames) : examined[q] <= 2
    /\ Cardinality(TwiceExamined) <= 1
    /\ TwiceExamined # {} => pc \in {"md5", "reassemble", "done"}
    /\ \A q \in TwiceExamined : q = index \/ (stop_pos # 0 /\ q = stop_pos)

C18_Terminates == [][C18_Step]_vars /\ []C18_Bounded /\ <>(pc = "done")

\* the run is over and the frame that ended the data phase was read twice
C18_Witness ==
    /\ pc = "done"
    /\ stop_pos >= 2
    /\ examined[stop_pos] = 2
    /\ \A q \in 1..Len(frames) : q # stop_pos => examined[q] <= 1

----------------------------------------------------------------------------
(* Hash-length discovery: the frames of a one-segment transmission and a   *)
(* payload longer than the largest Blake2b digest.                         *)

\* 66 zero bytes: no suffix of 1..64 bytes is the digest of its prefix
LongPayload == Payload([k \in 1..(BLAKE2B_MAX_OUT + 2) |-> 0])

GuessAlphabet ==
    { MFrame(MetaOne), DFrame(MetaOne, 0, <<65>>), HFrame(MetaOne, Md5(<<65>>)),
      Corrupt(MFrame(MetaOne)), LongPayload }

InitGuess ==
    \E n \in 0..MaxFrames : \E fs \in [1..n -> GuessAlphabet] : InitOver(fs)

SpecGuess == InitGuess /\ [][Next]_vars

\* some length 1..|b|-1 is the length of a digest at the end of b
HasDigest(b) == \E h \in 1..(Len(b) - 1) : DigestMatches(b, h)

(* C19: while hash_len is unknown, discovery over a payload f tries the    *)
(* lengths 1..|f|-1 in ascending order and returns the first length whose  *)
(* suffix is the hash of the prefix, and none exactly when no length       *)
(* matches; f verifies iff a length is returned, and that length strips    *)
(* the digest from a metadata body.                                        *)

C19_Step ==
    (/\ pc = "metadata"
     /\ index < Len(frames)
     /\ Current.kind = "payload")
    => IF HasDigest(Current.bytes)
       THEN (IsMetaFrame(Current) /\ outcome' # "panic")
               => md_str' = md_str \o BodyOf(Current)
       ELSE /\ md_str' = md_str
            /\ metadata' = metadata
            /\ pc' = "metadata"
            /\ outcome' = "running"
            /\ index' = index + 1

C19_DiscoveryRejectsOrStrips == [][C19_Step]_vars

\* position of the first verified 'H' frame after the frame that completed
\* the metadata (one past the last frame when there is none)
FirstChecksumPos ==
    LET hs == {q \in (md_pos + 1)..Len(frames) : VerifiedWithTag(frames[q], metadata, TagH)}
    IN IF hs = {} THEN Len(frames) + 1 ELSE CHOOSE q \in hs : \A r \in hs : q <= r

(* C20: content segments are collected from a single window: every entry   *)
(* of the segment mapping comes from a frame strictly after the frame that *)
(* completed the metadata and strictly before the first verified 'H'       *)
(* frame that follows it; verified 'D' frames before or after that window  *)
(* are never inserted, and only the data phase modifies the mapping.       *)

C20_InWindow ==
    \A id \in DOMAIN data_segments :
        /\ md_pos >= 1
        /\ metadata # None
        /\ \E q \in (md_pos + 1)..(FirstChecksumPos - 1) :
              /\ IsSegmentFrame(frames[q], metadata)
              /\ SegmentId(frames[q], metadata) = id
              /\ SegmentPayload(frames[q], metadata) = data_segments[id].data

C20_Step == pc # "data" => data_segments' = data_segments

C20_SingleWindow == []C20_InWindow /\ [][C20_Step]_vars

\* the run is over, segment 0 was collected and the frame of segment 1
\* that lies after the 'H' frame was not
C20_Witness ==
    /\ pc = "done"
    /\ metadata = RecordOf(MetaData)
    /\ DOMAIN data_segments = {0}
    /\ FirstChecksumPos < Len(frames)
    /\ \E q \in (FirstChecksumPos + 1)..Len(frames) : frames[q] = DFrame(MetaData, 1, <<66>>)

====
